---- MODULE Spec2Model ----
(***************************************************************************)
(* Model of streamlit_phone_extractor.py: the Egyptian mobile number       *)
(* normalizer (find_egypt_mobile), the table builder (build_output_df)     *)
(* and the export projection (dataframe_to_excel_bytes).                   *)
(*                                                                         *)
(* A Python str is a sequence of one-character tokens.  The token "u0663"  *)
(* stands for a decimal digit outside ASCII (ARABIC-INDIC DIGIT THREE):    *)
(* the pattern is a str pattern compiled without re.ASCII, so \d and \D    *)
(* classify by Unicode category Nd.                                        *)
(***************************************************************************)
EXTENDS Naturals, Sequences, FiniteSets

VARIABLES pc, text, result, flow, values, table, edits, make_clickable, sheet

vars == <<pc, text, result, flow, values, table, edits, make_clickable, sheet>>

-----------------------------------------------------------------------------
(* Characters *)

AsciiDigit == {"0", "1", "2", "3", "4", "5", "6", "7", "8", "9"}

UnicodeDigit == {"u0663"}

\* \d of a str pattern: any Unicode decimal digit
IsDigit(c) == c \in AsciiDigit \cup UnicodeDigit

\* the number of digits after the "1" in the pattern: \d{9}
SubscriberDigits == 9

-----------------------------------------------------------------------------
(* Raw values: None, a float NaN (an empty cell read with dtype=str), a str *)

PyNone == [kind |-> "none", s |-> <<>>]

PyNaN == [kind |-> "nan", s |-> <<>>]

PyStr(s) == [kind |-> "str", s |-> s]

\* str(text)
Str(v) == IF v.kind = "str" THEN v.s
          ELSE IF v.kind = "nan" THEN <<"n", "a", "n">>
          ELSE <<"N", "o", "n", "e">>

\* s.startswith(p)
StartsWith(s, p) == Len(s) >= Len(p) /\ SubSeq(s, 1, Len(p)) = p

-----------------------------------------------------------------------------
(* EG_MOBILE_REGEX = (?:\+?20)?0?1\d{9} as the backtracking matcher runs it *)

\* s has the literal p at position i
LiteralAt(s, i, p) ==
    /\ i + Len(p) - 1 <= Len(s)
    /\ \A k \in 1..Len(p) : s[i + k - 1] = p[k]

\* 1\d{9} at position i: the position after it, or 0
TailAt(s, i) ==
    IF /\ i + SubscriberDigits <= Len(s)
       /\ s[i] = "1"
       /\ \A k \in 1..SubscriberDigits : IsDigit(s[i + k])
    THEN i + SubscriberDigits + 1
    ELSE 0

\* The ways the optional parts can be taken, in the order the greedy
\* quantifiers try them: the group with and without "+", each with and
\* without the "0"; then no group, with and without the "0".
Alternatives == << <<"+", "2", "0", "0">>, <<"+", "2", "0">>,
                   <<"2", "0", "0">>, <<"2", "0">>,
                   <<"0">>, <<>> >>

\* the position after alternative a matched at i, or 0
AltAt(s, i, a) ==
    IF LiteralAt(s, i, Alternatives[a])
    THEN TailAt(s, i + Len(Alternatives[a]))
    ELSE 0

\* pattern.match at position i: the first alternative that succeeds
RECURSIVE FirstAlt(_, _, _)
FirstAlt(s, i, a) ==
    IF a > Len(Alternatives) THEN 0
    ELSE IF AltAt(s, i, a) # 0 THEN AltAt(s, i, a)
    ELSE FirstAlt(s, i, a + 1)

MatchAt(s, i) == FirstAlt(s, i, 1)

\* pattern.match in place of pattern.search: only position 1 is tried
Search_Anchored(s) ==
    IF MatchAt(s, 1) # 0 THEN [start |-> 1, stop |-> MatchAt(s, 1)]
    ELSE [start |-> 0, stop |-> 0]

\* the last match in place of the first: start positions right to left
RECURSIVE ScanBack(_, _)
ScanBack(s, i) ==
    IF i < 1 THEN [start |-> 0, stop |-> 0]
    ELSE IF MatchAt(s, i) # 0 THEN [start |-> i, stop |-> MatchAt(s, i)]
    ELSE ScanBack(s, i - 1)

Search_Rightmost(s) == ScanBack(s, Len(s))

\* EG_MOBILE_REGEX.search(s): scan start positions left to right;
\* [start, stop) of the match, or start = 0 when there is none
RECURSIVE ScanFrom(_, _)
ScanFrom(s, i) ==
    IF i > Len(s) THEN [start |-> 0, stop |-> 0]
    ELSE IF MatchAt(s, i) # 0 THEN [start |-> i, stop |-> MatchAt(s, i)]
    ELSE ScanFrom(s, i + 1)

Search(s) == ScanFrom(s, 1)

\* re.sub(r"\D", "", m)
StripNonDigits(m) == SelectSeq(m, IsDigit)

-----------------------------------------------------------------------------
(* find_egypt_mobile *)

None(why) == [exit |-> why, val |-> <<>>]

Return(digits) == [exit |-> "return", val |-> digits]

\* line 42 without the slice: the leading "0" is kept
Normalize_KeepZero(digits) ==
    IF StartsWith(digits, <<"0">>) /\ Len(digits) = 11
    THEN [ok |-> TRUE, digits |-> <<"2", "0">> \o digits]
    ELSE IF StartsWith(digits, <<"2", "0">>) /\ Len(digits) = 12
    THEN [ok |-> TRUE, digits |-> digits]
    ELSE IF StartsWith(digits, <<"1">>) /\ Len(digits) = 10
    THEN [ok |-> TRUE, digits |-> <<"2", "0">> \o digits]
    ELSE [ok |-> FALSE, digits |-> digits]

\* line 46 with "2" for "20"
Normalize_BarePrefix(digits) ==
    IF StartsWith(digits, <<"0">>) /\ Len(digits) = 11
    THEN [ok |-> TRUE, digits |-> <<"2", "0">> \o Tail(digits)]
    ELSE IF StartsWith(digits, <<"2", "0">>) /\ Len(digits) = 12
    THEN [ok |-> TRUE, digits |-> digits]
    ELSE IF StartsWith(digits, <<"1">>) /\ Len(digits) = 10
    THEN [ok |-> TRUE, digits |-> <<"2">> \o digits]
    ELSE [ok |-> FALSE, digits |-> digits]

\* lines 41-48: the case analysis on the matched digits
Normalize(digits) ==
    IF StartsWith(digits, <<"0">>) /\ Len(digits) = 11
    THEN [ok |-> TRUE, digits |-> <<"2", "0">> \o Tail(digits)]
    ELSE IF StartsWith(digits, <<"2", "0">>) /\ Len(digits) = 12
    THEN [ok |-> TRUE, digits |-> digits]
    ELSE IF StartsWith(digits, <<"1">>) /\ Len(digits) = 10
    THEN [ok |-> TRUE, digits |-> <<"2", "0">> \o digits]
    ELSE [ok |-> FALSE, digits |-> digits]

\* line 50: the final gate
Gate(digits) == StartsWith(digits, <<"2", "0", "1">>) /\ Len(digits) = 12

\* the function without the pattern and without the length tests: the
\* digits of the whole text, normalized by their prefix alone
find_egypt_mobile_Loose(v) ==
    IF v.kind = "none" THEN None("null")
    ELSE LET digits == StripNonDigits(Str(v))
         IN IF StartsWith(digits, <<"0">>) THEN Return(<<"2", "0">> \o Tail(digits))
            ELSE IF StartsWith(digits, <<"2", "0">>) THEN Return(digits)
            ELSE IF StartsWith(digits, <<"1">>) THEN Return(<<"2", "0">> \o digits)
            ELSE None("else")

\* the outcome, with the line the function left by
find_egypt_mobile(v) ==
    IF v.kind = "none" THEN None("null")
    ELSE LET s == Str(v)
             m == Search(s)
         IN IF m.start = 0 THEN None("nomatch")
            ELSE LET n == Normalize(StripNonDigits(SubSeq(s, m.start, m.stop - 1)))
                 IN IF ~n.ok THEN None("else")
                    ELSE IF ~Gate(n.digits) THEN None("gate")
                    ELSE Return(n.digits)

-----------------------------------------------------------------------------
(* Inputs of the normalizer runs *)

\* longest text placed before a candidate
MaxPad == 3

\* longest text placed after a candidate
MaxSuf == 1

\* all strings over A of length at most n
Strs(A, n) == UNION {[1..k -> A] : k \in 0..n}

PadChars == {"+", "2", "0", "1", "a"}

SufChars == {"0", "a"}

SubHeads == {"0", "1", "2", "5", "u0663"}

SubLasts == {"8", "u0663"}

\* subscriber digit strings: \d{9}
Subs == {<<h>> \o <<"1", "2", "3", "4", "5", "6", "7">> \o <<l>> :
            h \in SubHeads, l \in SubLasts}

\* "1" and nine digits, and the same one digit short
Cores == {<<"1">> \o d : d \in Subs}
         \cup {<<"1">> \o SubSeq(d, 1, SubscriberDigits - 1) : d \in Subs}

\* two candidates in one text, the first of them accepted or rejected
Doubles == {p \o <<"1">> \o d \o <<"a">> \o q \o <<"1">> \o e :
               p \in {<<"0">>, <<"+", "2", "0", "0">>},
               q \in {<<"0">>, <<"2", "0">>},
               d \in Subs, e \in Subs}

\* the group and the "0" both taken: a candidate of 13 digits
Overlong == {<<"+", "2", "0", "0">> \o c : c \in Cores}

Texts == {p \o c \o x : p \in Strs(PadChars, MaxPad), c \in Cores,
                        x \in Strs(SufChars, MaxSuf)}
         \cup Strs(PadChars, MaxPad) \cup Overlong \cup Doubles

Inputs == {PyNone, PyNaN} \cup {PyStr(t) : t \in Texts}

-----------------------------------------------------------------------------
(* Normalizer runs: one call of find_egypt_mobile on one raw value *)

NoResult == [exit |-> "pending", val |-> <<>>]

NoSheet == [columns |-> <<>>, rows |-> <<>>]

Init ==
    /\ pc = "input"
    /\ text \in Inputs
    /\ result = NoResult
    /\ flow = "none"
    /\ values = <<>>
    /\ table = <<>>
    /\ edits = 0
    /\ make_clickable = TRUE
    /\ sheet = NoSheet

CallFind ==
    /\ pc = "input"
    /\ flow = "none"
    /\ result' = find_egypt_mobile(text)
    /\ pc' = "returned"
    /\ UNCHANGED <<text, flow, values, table, edits, make_clickable, sheet>>

Next == CallFind

Spec == Init /\ [][Next]_vars

-----------------------------------------------------------------------------
(* Properties of the normalizer, checked under Spec *)

Returned == pc = "returned"

AllDigits(s) == \A k \in 1..Len(s) : IsDigit(s[k])

\* the three accepted encodings of the number "201" + d
Encodings == {<<"0", "1">>, <<"+", "2", "0", "1">>, <<"2", "0", "1">>}

\* s reads p, then the encoding e, then nine digits, then anything
EncodedAt(s, p, e) ==
    /\ p + Len(e) + 9 <= Len(s)
    /\ SubSeq(s, p + 1, p + Len(e)) = e
    /\ AllDigits(SubSeq(s, p + Len(e) + 1, p + Len(e) + 9))

\* the canonical number of the encoding at p
NumberAt(s, p, e) == <<"2", "0", "1">> \o SubSeq(s, p + Len(e) + 1, p + Len(e) + 9)

\* C1: every returned string is exactly 12 ASCII digits and begins with
\* "201".
C1_CanonicalShape ==
    (Returned /\ result.exit = "return") =>
        /\ Len(result.val) = 12
        /\ \A k \in 1..Len(result.val) : result.val[k] \in AsciiDigit
        /\ SubSeq(result.val, 1, 3) = <<"2", "0", "1">>

\* C2: for nine digits d, the texts "01" + d, "+201" + d and "201" + d each
\* normalize to N = "201" + d; and whenever a text normalizes to N, the
\* display string "+" + N normalizes to N as well.
C2_EncodingsAgree ==
    (Returned /\ text.kind = "str") =>
        /\ \A e \in Encodings :
              (EncodedAt(text.s, 0, e) /\ Len(text.s) = Len(e) + 9)
                  => result = [exit |-> "return", val |-> NumberAt(text.s, 0, e)]
        /\ result.exit = "return"
              => find_egypt_mobile(PyStr(<<"+">> \o result.val)) = result

C2_Witness ==
    /\ Returned
    /\ text.kind = "str"
    /\ EncodedAt(text.s, 0, <<"+", "2", "0", "1">>)
    /\ Len(text.s) = 13
    /\ result.exit = "return"

\* C5 as stated: an encoded number placed after any prefix and before any
\* suffix normalizes to that number.
C5_AnyPrefix ==
    (Returned /\ text.kind = "str") =>
        \A p \in 0..Len(text.s) : \A e \in Encodings :
            EncodedAt(text.s, p, e)
                => result = [exit |-> "return", val |-> NumberAt(text.s, p, e)]

\* C5 amended: an encoded number placed after a prefix that holds no digit
\* and before any suffix normalizes to that number.
C5_DigitFreePrefix ==
    (Returned /\ text.kind = "str") =>
        \A p \in 0..Len(text.s) : \A e \in Encodings :
            (EncodedAt(text.s, p, e) /\ \A k \in 1..p : ~IsDigit(text.s[k]))
                => result = [exit |-> "return", val |-> NumberAt(text.s, p, e)]

C5_Witness ==
    /\ Returned
    /\ text.kind = "str"
    /\ \E p \in 1..Len(text.s) :
          /\ EncodedAt(text.s, p, <<"0", "1">>)
          /\ \A k \in 1..p : ~IsDigit(text.s[k])
          /\ Len(text.s) > p + 11
    /\ result.exit = "return"

\* C6 as stated: a digit string that starts with "0" and is not 11 long, or
\* starts with "20" and is not 12 long, yields no match.
C6_WrongLength ==
    (Returned /\ text.kind = "str" /\ AllDigits(text.s)) =>
        ((\/ StartsWith(text.s, <<"0">>) /\ Len(text.s) # 11
          \/ StartsWith(text.s, <<"2", "0">>) /\ Len(text.s) # 12)
            => result.exit # "return")

\* C6 amended: a digit string that starts with "0" and is shorter than 11,
\* or starts with "20" and is shorter than 12, yields no match.
C6_TooShort ==
    (Returned /\ text.kind = "str" /\ AllDigits(text.s)) =>
        ((\/ StartsWith(text.s, <<"0">>) /\ Len(text.s) < 11
          \/ StartsWith(text.s, <<"2", "0">>) /\ Len(text.s) < 12)
            => result.exit # "return")

C6_Witness ==
    /\ Returned
    /\ text.kind = "str"
    /\ AllDigits(text.s)
    /\ Len(text.s) = 11
    /\ SubSeq(text.s, 1, 3) = <<"2", "0", "1">>
    /\ result.exit # "return"

\* m is a word of the pattern: an optional group of an optional "+" and
\* "20", an optional "0", then "1", then nine digits
IsCandidate(m) ==
    \E g \in {<<>>, <<"2", "0">>, <<"+", "2", "0">>} : \E z \in {<<>>, <<"0">>} :
        /\ Len(m) = Len(g) + Len(z) + 10
        /\ SubSeq(m, 1, Len(g) + Len(z) + 1) = g \o z \o <<"1">>
        /\ AllDigits(SubSeq(m, Len(g) + Len(z) + 2, Len(m)))

\* where the candidates of s lie, each as <<first, last>>; a candidate is
\* 10 to 14 characters long
Candidates(s) ==
    {c \in {<<i, i + n - 1>> : i \in 1..Len(s), n \in 10..14} :
        c[2] <= Len(s) /\ IsCandidate(SubSeq(s, c[1], c[2]))}

\* steps 5 to 7 on one candidate
Canonical(m) ==
    LET n == Normalize(StripNonDigits(m))
    IN IF ~n.ok THEN None("else")
       ELSE IF ~Gate(n.digits) THEN None("gate")
       ELSE Return(n.digits)

\* C9: the outcome is that of the leftmost candidate alone: no-match when
\* there is no candidate, otherwise steps 5 to 7 applied to the candidate
\* with the least start, whatever candidates follow it.
C9_LeftmostOnly ==
    (Returned /\ text.kind = "str") =>
        LET C == Candidates(text.s)
        IN IF C = {} THEN result = None("nomatch")
           ELSE \E c \in C :
                   /\ \A d \in C : c[1] < d[1] \/ c = d
                   /\ result = Canonical(SubSeq(text.s, c[1], c[2]))

\* the leftmost candidate is rejected and a later one would be accepted
C9_Witness ==
    /\ Returned
    /\ text.kind = "str"
    /\ result.exit = "else"
    /\ \E c \in Candidates(text.s) :
          Canonical(SubSeq(text.s, c[1], c[2])).exit = "return"

\* C10: the line 50 gate never decides: every outcome is a return, a null
\* input, a failed search or the else branch of the case analysis.
C10_GateNeverFires ==
    Returned => result.exit \in {"return", "null", "nomatch", "else"}

\* the bare branch produced the number
C10_Witness ==
    /\ Returned
    /\ text.kind = "str"
    /\ result.exit = "return"
    /\ Search(text.s).stop - Search(text.s).start = 10

-----------------------------------------------------------------------------
(* build_output_df *)

WaMe == <<"h", "t", "t", "p", "s", ":", "/", "/", "w", "a", ".", "m", "e", "/">>

\* lines 68-72: the row of one matched value
Row(digits) == [phone |-> PyStr(<<"+">> \o digits),
                link |-> PyStr(WaMe \o digits),
                completed |-> FALSE]

\* lines 65-72 without the test of line 67: a row for every value
RECURSIVE CollectRows_NoGuard(_)
CollectRows_NoGuard(vals) ==
    IF vals = <<>> THEN <<>>
    ELSE LET r == find_egypt_mobile(Head(vals))
         IN <<Row(IF r.exit = "return" THEN r.val ELSE <<"N", "o", "n", "e">>)>>
            \o CollectRows_NoGuard(Tail(vals))

\* lines 64-72: one row per value that find_egypt_mobile accepts, in order
RECURSIVE CollectRows(_)
CollectRows(vals) ==
    IF vals = <<>> THEN <<>>
    ELSE LET r == find_egypt_mobile(Head(vals))
         IN (IF r.exit = "return" /\ r.val # <<>> THEN <<Row(r.val)>> ELSE <<>>)
            \o CollectRows(Tail(vals))

\* drop_duplicates with keep="last"
RECURSIVE DropDuplicates_KeepLast(_, _)
DropDuplicates_KeepLast(rows, seen) ==
    IF rows = <<>> THEN <<>>
    ELSE IF \E k \in 2..Len(rows) : rows[k].phone = Head(rows).phone
    THEN DropDuplicates_KeepLast(Tail(rows), seen)
    ELSE <<Head(rows)>> \o DropDuplicates_KeepLast(Tail(rows), seen)

\* df.drop_duplicates(subset=["Phone Number"]): keep="first"
RECURSIVE DropDuplicates(_, _)
DropDuplicates(rows, seen) ==
    IF rows = <<>> THEN <<>>
    ELSE IF Head(rows).phone \in seen
    THEN DropDuplicates(Tail(rows), seen)
    ELSE <<Head(rows)>> \o DropDuplicates(Tail(rows), seen \cup {Head(rows).phone})

\* lines 64-74 without lines 75-76
build_output_df_NoDedup(raw_series) == CollectRows(raw_series)

build_output_df(raw_series) ==
    LET df == CollectRows(raw_series)
    IN IF df # <<>> THEN DropDuplicates(df, {}) ELSE df

-----------------------------------------------------------------------------
(* dataframe_to_excel_bytes *)

HyperlinkOpen == <<"=", "H", "Y", "P", "E", "R", "L", "I", "N", "K", "(", "\"">>

HyperlinkClose == <<"\"", ",", " ", "\"", "O", "p", "e", "n", " ", "W", "h", "a",
                    "t", "s", "A", "p", "p", "\"", ")">>

\* line 90: f'=HYPERLINK("{url}", "Open WhatsApp")'
Hyperlink(url) == PyStr(HyperlinkOpen \o Str(url) \o HyperlinkClose)

\* line 85 without line 86: every column is kept
Project_AllColumns(df) == df

\* line 86: out_df[["Phone Number", "WhatsApp Link"]]
Project(df) == [i \in 1..Len(df) |-> [phone |-> df[i].phone, link |-> df[i].link]]

\* lines 88-91
ApplyHyperlink(out_df) ==
    [i \in 1..Len(out_df) |-> [out_df[i] EXCEPT !.link = Hyperlink(out_df[i].link)]]

\* the frame the caller passed, as the call leaves it, and the sheet written
dataframe_to_excel_bytes(df, clickable) ==
    LET out_df == Project(df)
    IN [df |-> df,
        sheet |-> [columns |-> <<"Phone Number", "WhatsApp Link">>,
                   rows |-> IF clickable THEN ApplyHyperlink(out_df) ELSE out_df]]

-----------------------------------------------------------------------------
(* Table runs: one column or one block of pasted lines, built, edited in  *)
(* the data editor and exported                                            *)

\* longest input sequence
MaxValues == 3

\* most edits made in the data editor before the download
MaxEdits == 2

NumA == <<"0", "1", "2", "3", "4", "5", "6", "7", "8">>

NumB == <<"1", "9", "8", "7", "6", "5", "4", "3", "2">>

NumC == <<"5", "1", "1", "1", "1", "2", "2", "2", "2">>

LocalA == PyStr(<<"0", "1">> \o NumA)

PlusA == PyStr(<<"+", "2", "0", "1">> \o NumA)

PlusB == PyStr(<<"+", "2", "0", "1">> \o NumB)

EmbeddedC == PyStr(<<"a", "t", " ", "0", "1">> \o NumC \o <<" ", "t", "h", "x">>)

NotAPhone == PyStr(<<"n", "o", "t", " ", "a">>)

\* cells of a column read with dtype=str
UploadValues == {PyNone, PyNaN, LocalA, PlusA, PlusB, EmbeddedC, NotAPhone}

\* the non-blank lines of the text area
ManualValues == {LocalA, PlusA, PlusB, EmbeddedC, NotAPhone}

\* the column of four cells of the specification's first scenario
ScenarioA == <<LocalA, NotAPhone, PlusB, LocalA>>

TableInit ==
    /\ pc = "input"
    /\ text = PyNone
    /\ result = NoResult
    /\ \/ flow = "upload" /\ values \in Strs(UploadValues, MaxValues) \cup {ScenarioA}
       \/ flow = "manual" /\ values \in Strs(ManualValues, MaxValues) \ {<<>>}
    /\ table = <<>>
    /\ edits = 0
    /\ make_clickable = TRUE
    /\ sheet = NoSheet

\* lines 127 and 182; line 184: the manual flow stops at an empty table
BuildOutputDf ==
    /\ pc = "input"
    /\ flow \in {"upload", "manual"}
    /\ table' = build_output_df(values)
    /\ pc' = IF flow = "manual" /\ table' = <<>> THEN "warned" ELSE "table"
    /\ UNCHANGED <<text, result, flow, values, edits, make_clickable, sheet>>

\* the Completed checkbox of a row of the data editor
ToggleCompleted ==
    /\ pc = "table"
    /\ edits < MaxEdits
    /\ \E i \in 1..Len(table) :
          table' = [table EXCEPT ![i].completed = ~table[i].completed]
    /\ edits' = edits + 1
    /\ UNCHANGED <<pc, text, result, flow, values, make_clickable, sheet>>

BlankRow == [phone |-> PyNone, link |-> PyNone, completed |-> FALSE]

\* num_rows="dynamic" (line 196): the manual flow's editor adds a blank row
AddRow ==
    /\ pc = "table"
    /\ flow = "manual"
    /\ edits < MaxEdits
    /\ table' = Append(table, BlankRow)
    /\ edits' = edits + 1
    /\ UNCHANGED <<pc, text, result, flow, values, make_clickable, sheet>>

\* num_rows="dynamic" (line 196): the manual flow's editor deletes a row
DeleteRow ==
    /\ pc = "table"
    /\ flow = "manual"
    /\ edits < MaxEdits
    /\ \E i \in 1..Len(table) :
          table' = SubSeq(table, 1, i - 1) \o SubSeq(table, i + 1, Len(table))
    /\ edits' = edits + 1
    /\ UNCHANGED <<pc, text, result, flow, values, make_clickable, sheet>>

\* lines 151-152 and 206-207: the toggle and the export of the edited frame
Export ==
    /\ pc = "table"
    /\ \E clickable \in BOOLEAN :
          LET out == dataframe_to_excel_bytes(table, clickable)
          IN /\ make_clickable' = clickable
             /\ table' = out.df
             /\ sheet' = out.sheet
    /\ pc' = "exported"
    /\ UNCHANGED <<text, result, flow, values, edits>>

TableNext ==
    \/ BuildOutputDf
    \/ ToggleCompleted
    \/ AddRow
    \/ DeleteRow
    \/ Export

TableSpec == TableInit /\ [][TableNext]_vars

-----------------------------------------------------------------------------
(* Properties of the table builder and the export, checked under TableSpec *)

\* build_output_df has returned and the editor has not changed the table
Built == pc \in {"table", "warned"} /\ edits = 0

\* the outcomes of the normalizer on the values, in order
Numbers == [k \in 1..Len(values) |-> find_egypt_mobile(values[k])]

\* the values that normalize
Matched(n) == {k \in DOMAIN n : n[k].exit = "return"}

\* the first occurrence of each number
Firsts(n) == {k \in Matched(n) : \A j \in Matched(n) : j < k => n[j].val # n[k].val}

\* the place of k among the first occurrences f
Rank(f, k) == Cardinality({j \in f : j <= k})

\* C3: no two rows of the built table share a phone number; a number that
\* occurs several times, in whatever encodings, has exactly one row, and that
\* row stands where the number's first occurrence puts it.
C3_DedupFirstWins ==
    Built =>
        LET n == Numbers
            f == Firsts(n)
        IN /\ \A i, j \in 1..Len(table) : i # j => table[i].phone # table[j].phone
           /\ \A k \in Matched(n) :
                 Cardinality({i \in 1..Len(table) :
                                 table[i].phone = PyStr(<<"+">> \o n[k].val)}) = 1
           /\ \A k \in f :
                 /\ Rank(f, k) <= Len(table)
                 /\ table[Rank(f, k)].phone = PyStr(<<"+">> \o n[k].val)

\* one number in two encodings, and another number in the table
C3_Witness ==
    /\ Built
    /\ Len(table) >= 2
    /\ \E j, k \in Matched(Numbers) :
          j < k /\ values[j] # values[k] /\ Numbers[j].val = Numbers[k].val

C4_LinkPrefix == <<"h", "t", "t", "p", "s", ":", "/", "/", "w", "a", ".", "m", "e", "/">>

\* C4: the built table is the distinct normalized numbers N in order of first
\* appearance, each as {"+" + N, "https://wa.me/" + N, false}: as many rows as
\* distinct numbers, none missing, none that no value normalizes to.
C4_OrderAndContent ==
    Built =>
        LET n == Numbers
            f == Firsts(n)
        IN /\ Len(table) = Cardinality(f)
           /\ \A k \in f :
                 table[Rank(f, k)] = [phone |-> PyStr(<<"+">> \o n[k].val),
                                      link |-> PyStr(C4_LinkPrefix \o n[k].val),
                                      completed |-> FALSE]

\* scenario A: a number, a text without one, another number, the first again
C4_Witness ==
    /\ Built
    /\ values = ScenarioA
    /\ Len(table) = 2

\* C7: the normalizer ends on every value with a number or with no match,
\* build_output_df ends on every input sequence with a table, and the table
\* is empty when the sequence is empty or none of its values matches.
C7_NoError ==
    /\ pc \in {"input", "table", "warned", "exported"}
    /\ Built =>
          LET n == Numbers
          IN /\ \A k \in DOMAIN n :
                   /\ n[k].exit \in {"return", "null", "nomatch", "else", "gate"}
                   /\ n[k].exit = "return" <=> n[k].val # <<>>
             /\ Matched(n) = {} => table = <<>>

\* a null cell and a text without a candidate, and nothing that matches
C7_Witness ==
    /\ Built
    /\ Matched(Numbers) = {}
    /\ \E j, k \in 1..Len(values) : values[j] = PyNone /\ values[k] = NotAPhone
    /\ table = <<>>

C8_Formula(url) ==
    <<"=", "H", "Y", "P", "E", "R", "L", "I", "N", "K", "(", "\"">> \o url
    \o <<"\"", ",", " ", "\"", "O", "p", "e", "n", " ", "W", "h", "a", "t", "s",
         "A", "p", "p", "\"", ")">>

\* the sheet written from the table t with the option c
C8_SheetOf(t, c, sh) ==
    /\ sh.columns = <<"Phone Number", "WhatsApp Link">>
    /\ Len(sh.rows) = Len(t)
    /\ \A i \in 1..Len(t) :
          /\ DOMAIN sh.rows[i] = {"phone", "link"}
          /\ sh.rows[i].phone = t[i].phone
          /\ ~c => sh.rows[i].link = t[i].link
          /\ (c /\ t[i].link.kind = "str")
                => sh.rows[i].link = PyStr(C8_Formula(t[i].link.s))

====
